---- MODULE Spec2Model ----
(***************************************************************************)
(* PulseX Medical API (backend/main.py): the two upload handlers,          *)
(* analyze_xray and upload_ecg, the health endpoint, and the two           *)
(* directories they share (uploads/xray_temp and uploads/ecg).             *)
(*                                                                         *)
(* Strings the handlers compute on (content types, filenames, generated    *)
(* names) are sequences of one-character strings, so that startswith,      *)
(* Path.suffix, str.lower and strftime are computed, not assumed.          *)
(* Every I/O step of a handler is one action; a step that can raise (the   *)
(* body read, open, write, the analyze call, unlink, the stream copy,      *)
(* stat) has its raising outcome as a disjunct of that action.  Each       *)
(* request records the I/O steps it made in its trace.                     *)
(***************************************************************************)
EXTENDS Integers, Sequences, FiniteSets, TLC

(* ------------------------------ bounds -------------------------------- *)

\* requests in flight together in the "concurrent" workload
NumReqs == 2
\* requests in the "inputs" workload
WideReqs == 1
\* longest upload body, in bytes
MaxBody == 1
\* seconds the wall clock may advance during a behaviour
MaxClock == 1

Reqs == 1..(IF NumReqs > WideReqs THEN NumReqs ELSE WideReqs)

(* --------------------------- string helpers --------------------------- *)

\* Python's None, for UploadFile.content_type / UploadFile.filename
NoneVal == <<"None">>

UpperCase ==
  <<"A","B","C","D","E","F","G","H","I","J","K","L","M",
    "N","O","P","Q","R","S","T","U","V","W","X","Y","Z">>
LowerCase ==
  <<"a","b","c","d","e","f","g","h","i","j","k","l","m",
    "n","o","p","q","r","s","t","u","v","w","x","y","z">>
DigitChars == <<"0","1","2","3","4","5","6","7","8","9">>
HexChars ==
  <<"0","1","2","3","4","5","6","7","8","9","a","b","c","d","e","f">>

IsDigit(c) == \E i \in 1..Len(DigitChars) : DigitChars[i] = c
IsHex(c) == \E i \in 1..Len(HexChars) : HexChars[i] = c

\* str.lower(), identity: the case mapping left out
lower_identity(s) == s

\* str.lower()
lower(s) ==
  [i \in 1..Len(s) |->
     IF \E k \in 1..Len(UpperCase) : UpperCase[k] = s[i]
     THEN LowerCase[CHOOSE k \in 1..Len(UpperCase) : UpperCase[k] = s[i]]
     ELSE s[i]]

\* str.startswith(), comparing the first character only
startswith_first(s, prefix) ==
  Len(s) >= 1 /\ Len(prefix) >= 1 /\ s[1] = prefix[1]

\* str.startswith()
startswith(s, prefix) ==
  /\ Len(s) >= Len(prefix)
  /\ SubSeq(s, 1, Len(prefix)) = prefix

\* str.rfind(c), 1-based; 0 when c does not occur
rfind(s, c) ==
  IF \E i \in 1..Len(s) : s[i] = c
  THEN CHOOSE i \in 1..Len(s) :
         s[i] = c /\ \A j \in (i + 1)..Len(s) : s[j] # c
  ELSE 0

\* pathlib: trailing separators are dropped when the path is parsed
RECURSIVE strip_slashes(_)
strip_slashes(s) ==
  IF Len(s) > 0 /\ s[Len(s)] = "/"
  THEN strip_slashes(SubSeq(s, 1, Len(s) - 1))
  ELSE s

\* PurePath.name: the final path component
path_name(s) ==
  LET t == strip_slashes(s)
  IN SubSeq(t, rfind(t, "/") + 1, Len(t))

\* PurePath.suffix: from the last dot of the name, unless the dot is the
\* first or the last character of the name
suffix(s) ==
  LET name == path_name(s)
      i == rfind(name, ".")
  IN IF 1 < i /\ i < Len(name) THEN SubSeq(name, i, Len(name)) ELSE <<>>

\* zero-padded decimal rendering of n in w digits (strftime's %m, %d, ...)
RECURSIVE Pad(_, _)
Pad(n, w) ==
  IF w = 0 THEN <<>>
  ELSE Pad(n \div 10, w - 1) \o <<DigitChars[(n % 10) + 1]>>

(* ------------------------------ clock --------------------------------- *)

\* datetime.now() after k ticks of the wall clock (second granularity)
now(k) ==
  LET secs == (7 * 3600) + (5 * 60) + 59 + k
  IN [year |-> 2024, month |-> 3, day |-> 9,
      hour |-> secs \div 3600,
      minute |-> (secs % 3600) \div 60,
      second |-> secs % 60]

\* strftime with the separator left out: "%Y%m%d%H%M%S"
strftime_nosep(dt) ==
  Pad(dt.year, 4) \o Pad(dt.month, 2) \o Pad(dt.day, 2)
    \o Pad(dt.hour, 2) \o Pad(dt.minute, 2) \o Pad(dt.second, 2)

\* datetime.strftime("%Y%m%d_%H%M%S")
strftime(dt) ==
  Pad(dt.year, 4) \o Pad(dt.month, 2) \o Pad(dt.day, 2) \o <<"_">>
    \o Pad(dt.hour, 2) \o Pad(dt.minute, 2) \o Pad(dt.second, 2)

\* datetime.isoformat(), at second granularity
isoformat(dt) ==
  Pad(dt.year, 4) \o <<"-">> \o Pad(dt.month, 2) \o <<"-">> \o Pad(dt.day, 2)
    \o <<"T">> \o Pad(dt.hour, 2) \o <<":">> \o Pad(dt.minute, 2)
    \o <<":">> \o Pad(dt.second, 2)

(* ------------------------------ uuid ---------------------------------- *)

\* str(uuid.uuid4()) returning the same id on every call
uuid4_constant(n) == <<HexChars[1], HexChars[1]>>

\* str(uuid.uuid4()): the n-th id generated by the process, distinct from
\* every id generated before; rendered as a short hexadecimal string
uuid4(n) == <<HexChars[(n \div 16) + 1], HexChars[(n % 16) + 1]>>

(* --------------------------- file system ------------------------------ *)

\* a directory is a function from the names in it to the files' bytes

\* Path.exists()
exists(dir, name) == name \in DOMAIN dir

\* open(path, "wb") followed by writes: the file is created or truncated
\* and then holds bytes
write_file(dir, name, bytes) ==
  [n \in (DOMAIN dir) \cup {name} |-> IF n = name THEN bytes ELSE dir[n]]

\* Path.unlink() that removes nothing
unlink_noop(dir, name) == dir

\* Path.unlink()
unlink(dir, name) == [n \in (DOMAIN dir) \ {name} |-> dir[n]]

EmptyDir == [n \in {} |-> <<>>]

(* ------------------------- requests, responses ------------------------ *)

ImagePng == <<"i","m","a","g","e","/","p","n","g">>

\* declared content types a client may send (None: the part carries no
\* Content-Type header)
ContentTypes ==
  { NoneVal,
    ImagePng,
    <<"i","m","a","g","e">>,
    <<"I","M","A","G","E","/","P","N","G">>,
    <<"t","e","x","t","/","c","s","v">> }

\* declared filenames a client may send
Filenames ==
  { NoneVal,
    <<"x",".","P","N","G">>,
    <<"e",".","p","d","f">>,
    <<"s",".","J","p","e","G">>,
    <<"a",".","p","n","g",".","j","p","g">>,
    <<"r",".","d","o","c","x">>,
    <<"p","d","f">>,
    <<".","j","p","g">>,
    <<"e",".","p","n","g","/","n","o","t","e">> }

\* an upload body of n bytes
BodyOf(n) == [i \in 1..n |-> i]
Bodies == { BodyOf(n) : n \in 0..MaxBody }

\* The declared part of an UploadFile.  Two workloads bound the behaviours:
\* "inputs" sends WideReqs requests drawn from every declared content type
\* and filename; "concurrent" sends NumReqs requests, all declaring the
\* same well-formed upload, in every interleaving.
Workloads == { "inputs", "concurrent" }

Uploads(w) ==
  IF w = "inputs"
  THEN [content_type : ContentTypes, filename : Filenames]
  ELSE [content_type : {ImagePng}, filename : {<<"x",".","P","N","G">>}]

\* upload_ecg never reads content_type: one declared type stands for all
EcgUploads(w) == { u \in Uploads(w) : u.content_type = ImagePng }

Slots(w) == IF w = "inputs" THEN 1..WideReqs ELSE 1..NumReqs

\* values XRayService.analyze_xray may return (opaque to this service)
Results == { "Normal" }

NoResponse == [kind |-> "none"]
\* raise HTTPException(status_code=code, detail=detail)
HTTPException(code, detail) ==
  [kind |-> "HTTPException", status_code |-> code, detail |-> detail]
\* return {...}: FastAPI sends it as a 200 JSON response
JSONReturn(body) == [kind |-> "return", status_code |-> 200, body |-> body]
\* an exception other than HTTPException leaving the handler
Propagates(exc) == [kind |-> "raise", exc |-> exc]

NoFile == [content_type |-> NoneVal, filename |-> NoneVal]

Idle ==
  [endpoint |-> "none", pc |-> "idle", file |-> NoFile,
   file_id |-> <<>>, file_ext |-> <<>>, path |-> <<>>,
   image_bytes |-> <<>>, result |-> "", e |-> "", trace |-> <<>>,
   response |-> NoResponse]

(* ------------------------------ state --------------------------------- *)

VARIABLES
  workload,      \* which requests the clients send (fixed per behaviour)
  xray_service,  \* module global: "None" or "XRayService"
  req,           \* per request: the handler's inputs, locals and position
  xray_temp,     \* XRAY_TEMP_DIR: name -> bytes
  ecg_dir,       \* ECG_DIR: name -> bytes
  uuid_calls,    \* number of uuid.uuid4() calls made so far
  clock          \* the wall clock at its latest reading, in ticks

vars == <<workload, xray_service, req, xray_temp, ecg_dir, uuid_calls, clock>>

\* truthiness that takes any value, None included, as true
truthy_always(v) == TRUE

\* truthiness of the module global xray_service (None is false)
truthy(v) == v # "None"

\* module import: both directories exist (mkdir, exist_ok) and the X-ray
\* service either constructed or fell back to None
Init ==
  /\ workload \in Workloads
  /\ xray_service \in {"None", "XRayService"}
  /\ req = [r \in Reqs |-> Idle]
  /\ xray_temp = EmptyDir
  /\ ecg_dir = EmptyDir
  /\ uuid_calls = 0
  /\ clock = 0

\* requests arrive in slot order
MayArrive(r) ==
  /\ r \in Slots(workload)
  /\ req[r].pc = "idle"
  /\ IF r = 1 THEN TRUE ELSE req[r - 1].pc # "idle"

Finish(r, rec, resp) ==
  req' = [req EXCEPT ![r] = [rec EXCEPT !.pc = "done", !.response = resp]]

Log(rec, ev) == [rec EXCEPT !.trace = Append(@, ev)]

\* Time passes between requests: the clock moves to t, never backwards,
\* where a reading of datetime.now() names a file (upload_ecg, line 110);
\* the readings that only stamp a response take the clock as it stands.
ReadClock(t) ==
  /\ t \in clock..MaxClock
  /\ clock' = t

(* --------------------------- GET /health ------------------------------ *)

\* lines 55-62
health_check(r) ==
  /\ MayArrive(r)
  /\ Finish(r, [Idle EXCEPT !.endpoint = "health_check"],
       JSONReturn([status |-> "healthy",
                   timestamp |-> isoformat(now(clock)),
                   xray_ai |-> IF truthy(xray_service) THEN "active"
                               ELSE "inactive",
                   ecg_storage |-> "active"]))
  /\ UNCHANGED <<workload, xray_service, xray_temp, ecg_dir, uuid_calls, clock>>

(* ----------------------- POST /api/xray/analyze ----------------------- *)

ImagePrefix == <<"i","m","a","g","e","/">>

\* lines 65-75: the two checks and the staging path
analyze_xray_enter(r, file) ==
  LET rec == [Idle EXCEPT !.endpoint = "analyze_xray", !.file = file]
      id == uuid4(uuid_calls)
      ext == lower(suffix(file.filename))
  IN
  /\ MayArrive(r)
  /\ IF ~truthy(xray_service)
     THEN /\ Finish(r, rec, HTTPException(503, <<"X-ray AI not initialized">>))
          /\ UNCHANGED uuid_calls
     ELSE IF file.content_type = NoneVal
     THEN \* None has no attribute startswith
          /\ Finish(r, rec, Propagates("AttributeError"))
          /\ UNCHANGED uuid_calls
     ELSE IF ~startswith(file.content_type, ImagePrefix)
     THEN /\ Finish(r, rec, HTTPException(400, <<"Invalid file type">>))
          /\ UNCHANGED uuid_calls
     ELSE IF file.filename = NoneVal
     THEN \* Path(None)
          /\ Finish(r, [rec EXCEPT !.file_id = id], Propagates("TypeError"))
          /\ uuid_calls' = uuid_calls + 1
     ELSE /\ req' = [req EXCEPT ![r] =
                       [rec EXCEPT !.pc = "read", !.file_id = id,
                                   !.file_ext = ext, !.path = id \o ext]]
          /\ uuid_calls' = uuid_calls + 1
  /\ UNCHANGED <<workload, xray_service, xray_temp, ecg_dir, clock>>

\* lines 78-79: await file.seek(0); image_bytes = await file.read()
analyze_xray_read(r) ==
  /\ req[r].endpoint = "analyze_xray" /\ req[r].pc = "read"
  /\ \/ \E body \in Bodies :
          req' = [req EXCEPT ![r] =
                    [Log(@, "read") EXCEPT !.pc = "stage",
                                           !.image_bytes = body]]
     \/ req' = [req EXCEPT ![r] =
                  [Log(@, "read raises") EXCEPT !.pc = "except",
                                                !.e = "read failed"]]
  /\ UNCHANGED <<workload, xray_service, xray_temp, ecg_dir, uuid_calls, clock>>

\* lines 81-82: with open(temp_path, "wb") as buffer: buffer.write(...)
analyze_xray_stage(r) ==
  /\ req[r].endpoint = "analyze_xray" /\ req[r].pc = "stage"
  /\ \/ \* written and closed
        /\ xray_temp' = write_file(xray_temp, req[r].path, req[r].image_bytes)
        /\ req' = [req EXCEPT ![r] = [Log(@, "write") EXCEPT !.pc = "analyze"]]
     \/ \* open() raises: no file is created
        /\ xray_temp' = xray_temp
        /\ req' = [req EXCEPT ![r] =
                     [Log(@, "open raises") EXCEPT !.pc = "except",
                                                   !.e = "open failed"]]
     \/ \* the file is created, the write raises part-way
        /\ \E k \in 0..Len(req[r].image_bytes) :
             xray_temp' = write_file(xray_temp, req[r].path,
                                     SubSeq(req[r].image_bytes, 1, k))
        /\ req' = [req EXCEPT ![r] =
                     [Log(@, "write raises") EXCEPT !.pc = "except",
                                                    !.e = "write failed"]]
  /\ UNCHANGED <<workload, xray_service, ecg_dir, uuid_calls, clock>>

\* line 84: xray_service.analyze_xray(image_bytes, file.filename) is called
analyze_xray_call(r) ==
  /\ req[r].endpoint = "analyze_xray" /\ req[r].pc = "analyze"
  /\ IF xray_service = "None"
     THEN \* None has no attribute analyze_xray
          req' = [req EXCEPT ![r] =
                    [Log(@, "analyze raises") EXCEPT !.pc = "except",
                                                     !.e = "AttributeError"]]
     ELSE req' = [req EXCEPT ![r] = [Log(@, "analyze") EXCEPT !.pc = "analyzing"]]
  /\ UNCHANGED <<workload, xray_service, xray_temp, ecg_dir, uuid_calls, clock>>

\* line 84 with a retry: a call that raises is made again
analyze_xray_return_retry(r) ==
  /\ req[r].endpoint = "analyze_xray" /\ req[r].pc = "analyzing"
  /\ \/ \E result \in Results :
          req' = [req EXCEPT ![r] =
                    [Log(@, "analyze returns") EXCEPT
                       !.pc = "cleanup", !.result = result]]
     \/ req' = [req EXCEPT ![r] =
                  [Log(@, "analyze raises") EXCEPT !.pc = "analyze"]]
  /\ UNCHANGED <<workload, xray_service, xray_temp, ecg_dir, uuid_calls, clock>>

\* line 84: the call returns a result, or raises
analyze_xray_return(r) ==
  /\ req[r].endpoint = "analyze_xray" /\ req[r].pc = "analyzing"
  /\ \/ \E result \in Results :
          req' = [req EXCEPT ![r] =
                    [Log(@, "analyze returns") EXCEPT
                       !.pc = "cleanup", !.result = result]]
     \/ req' = [req EXCEPT ![r] =
                  [Log(@, "analyze raises") EXCEPT !.pc = "except",
                                                   !.e = "analyze failed"]]
  /\ UNCHANGED <<workload, xray_service, xray_temp, ecg_dir, uuid_calls, clock>>

\* lines 86-93: the staged file is removed and the envelope returned; an
\* unlink that raises is caught by the except clause of line 95
analyze_xray_cleanup(r) ==
  LET envelope == [success |-> TRUE, result |-> req[r].result,
                   timestamp |-> isoformat(now(clock))]
  IN
  /\ req[r].endpoint = "analyze_xray" /\ req[r].pc = "cleanup"
  /\ IF exists(xray_temp, req[r].path)
     THEN \/ /\ xray_temp' = unlink(xray_temp, req[r].path)
             /\ Finish(r, Log(req[r], "unlink"), JSONReturn(envelope))
          \/ /\ xray_temp' = xray_temp
             /\ req' = [req EXCEPT ![r] =
                          [Log(@, "unlink raises") EXCEPT
                             !.pc = "except", !.e = "unlink failed"]]
     ELSE /\ xray_temp' = xray_temp
          /\ Finish(r, req[r], JSONReturn(envelope))
  /\ UNCHANGED <<workload, xray_service, ecg_dir, uuid_calls, clock>>

\* lines 95-98: except Exception as e: remove the staged file, raise the
\* 500; an unlink that raises here leaves the handler
analyze_xray_except(r) ==
  LET error == HTTPException(500, <<"Analysis Error: ", req[r].e>>)
  IN
  /\ req[r].endpoint = "analyze_xray" /\ req[r].pc = "except"
  /\ IF exists(xray_temp, req[r].path)
     THEN \/ /\ xray_temp' = unlink(xray_temp, req[r].path)
             /\ Finish(r, Log(req[r], "unlink"), error)
          \/ /\ xray_temp' = xray_temp
             /\ Finish(r, Log(req[r], "unlink raises"), Propagates("OSError"))
     ELSE /\ xray_temp' = xray_temp
          /\ Finish(r, req[r], error)
  /\ UNCHANGED <<workload, xray_service, ecg_dir, uuid_calls, clock>>

(* ------------------------ POST /api/ecg/upload ------------------------ *)

\* line 103
allowed_extensions ==
  { <<".","p","n","g">>, <<".","j","p","g">>,
    <<".","j","p","e","g">>, <<".","p","d","f">> }

\* round(size / (1024 * 1024), 2), in hundredths of a MiB (ties to even)
size_mb(size) ==
  LET n == size * 100
      d == 1024 * 1024
      q == n \div d
      rem == n % d
  IN IF 2 * rem > d \/ (2 * rem = d /\ q % 2 = 1) THEN q + 1 ELSE q

\* lines 101-112: the extension check and the destination name
upload_ecg_enter(r, file) ==
  LET rec == [Idle EXCEPT !.endpoint = "upload_ecg", !.file = file]
      ext == lower(suffix(file.filename))
      id == uuid4(uuid_calls)
  IN
  /\ MayArrive(r)
  /\ IF file.filename = NoneVal
     THEN \* Path(None)
          /\ Finish(r, rec, Propagates("TypeError"))
          /\ UNCHANGED <<uuid_calls, clock>>
     ELSE IF ext \notin allowed_extensions
     THEN /\ Finish(r, [rec EXCEPT !.file_ext = ext],
                HTTPException(400, <<"Only PNG, JPG, JPEG, PDF allowed">>))
          /\ UNCHANGED <<uuid_calls, clock>>
     ELSE \E t \in 0..MaxClock :
            LET timestamp == strftime(now(t))
                unique_filename ==
                  <<"e","c","g","_">> \o timestamp \o <<"_">> \o id \o ext
            IN /\ ReadClock(t)
               /\ req' = [req EXCEPT ![r] =
                            [rec EXCEPT !.pc = "open", !.file_id = id,
                                        !.file_ext = ext,
                                        !.path = unique_filename]]
               /\ uuid_calls' = uuid_calls + 1
  /\ UNCHANGED <<workload, xray_service, xray_temp, ecg_dir>>

\* lines 128-129
UploadError(rec) == HTTPException(500, <<"Upload Error: ", rec.e>>)

\* line 115: open(save_path, "wb") creates (or truncates) the destination
upload_ecg_open(r) ==
  /\ req[r].endpoint = "upload_ecg" /\ req[r].pc = "open"
  /\ \/ /\ ecg_dir' = write_file(ecg_dir, req[r].path, <<>>)
        /\ req' = [req EXCEPT ![r] = [Log(@, "open") EXCEPT !.pc = "copy"]]
     \/ /\ ecg_dir' = ecg_dir
        /\ LET rec == [Log(req[r], "open raises") EXCEPT !.e = "open failed"]
           IN Finish(r, rec, UploadError(rec))
  /\ UNCHANGED <<workload, xray_service, xray_temp, uuid_calls, clock>>

\* the destination after a failed copy, with the partial file removed
after_failed_copy_removed(dir, name) == unlink(dir, name)

\* the destination after a failed copy: lines 128-129 do not touch it
after_failed_copy(dir, name) == dir

\* bytes of the upload copied to the destination so far
copied(dir, name) == IF exists(dir, name) THEN Len(dir[name]) ELSE 0

\* line 116: shutil.copyfileobj(file.file, buffer) reads the next chunk of
\* the body and writes it, or raises and the except clause answers 500
upload_ecg_copy(r) ==
  LET done == copied(ecg_dir, req[r].path)
  IN
  /\ req[r].endpoint = "upload_ecg" /\ req[r].pc = "copy"
  /\ \/ /\ done < MaxBody
        /\ ecg_dir' = write_file(ecg_dir, req[r].path, BodyOf(done + 1))
        /\ req' = [req EXCEPT ![r] = Log(@, "write")]
     \/ /\ ecg_dir' = after_failed_copy(ecg_dir, req[r].path)
        /\ LET rec == [Log(req[r], "copy raises") EXCEPT !.e = "copy failed"]
           IN Finish(r, rec, UploadError(rec))
  /\ UNCHANGED <<workload, xray_service, xray_temp, uuid_calls, clock>>

\* lines 116-127: the body is at its end, the file is closed, stat gives
\* its size and the metadata is returned; a stat that raises answers 500
upload_ecg_return(r) ==
  LET unique_filename == req[r].path
  IN
  /\ req[r].endpoint = "upload_ecg" /\ req[r].pc = "copy"
  /\ \/ /\ exists(ecg_dir, unique_filename)
        /\ Finish(r, Log(req[r], "stat"),
             JSONReturn(
               [success |-> TRUE,
                message |-> "ECG uploaded successfully",
                file_info |->
                  [filename |-> unique_filename,
                   path |-> <<"u","p","l","o","a","d","s","/","e","c","g","/">>
                              \o unique_filename,
                   size_mb |-> size_mb(Len(ecg_dir[unique_filename])),
                   timestamp |-> isoformat(now(clock))]]))
     \/ LET rec == [Log(req[r], "stat raises") EXCEPT !.e = "stat failed"]
        IN Finish(r, rec, UploadError(rec))
  /\ UNCHANGED <<workload, xray_service, xray_temp, ecg_dir, uuid_calls, clock>>

(* --------------------------- specification ---------------------------- *)

Next ==
  \/ \E r \in Reqs : health_check(r)
  \/ \E r \in Reqs : \E file \in Uploads(workload) : analyze_xray_enter(r, file)
  \/ \E r \in Reqs : analyze_xray_read(r)
  \/ \E r \in Reqs : analyze_xray_stage(r)
  \/ \E r \in Reqs : analyze_xray_call(r)
  \/ \E r \in Reqs : analyze_xray_return(r)
  \/ \E r \in Reqs : analyze_xray_cleanup(r)
  \/ \E r \in Reqs : analyze_xray_except(r)
  \/ \E r \in Reqs : \E file \in EcgUploads(workload) : upload_ecg_enter(r, file)
  \/ \E r \in Reqs : upload_ecg_open(r)
  \/ \E r \in Reqs : upload_ecg_copy(r)
  \/ \E r \in Reqs : upload_ecg_return(r)

Spec == Init /\ [][Next]_vars

(* ------------------------------ claims -------------------------------- *)

IsXray(r) == req[r].endpoint = "analyze_xray"
IsEcg(r) == req[r].endpoint = "upload_ecg"
IsHealth(r) == req[r].endpoint = "health_check"
Done(r) == req[r].pc = "done"
Status(r, code) ==
  /\ req[r].response.kind \in {"HTTPException", "return"}
  /\ req[r].response.status_code = code
Has(tr, ev) == \E i \in 1..Len(tr) : tr[i] = ev
Count(tr, evs) == Cardinality({ i \in 1..Len(tr) : tr[i] \in evs })
AllDigits(s) == \A i \in 1..Len(s) : IsDigit(s[i])
AllHex(s) == \A i \in 1..Len(s) : IsHex(s[i])

\* the declared content type is a string beginning with the six characters
\* i m a g e /
DeclaresImage(ct) ==
  /\ ct # NoneVal
  /\ Len(ct) >= 6
  /\ ct[1] = "i" /\ ct[2] = "m" /\ ct[3] = "a" /\ ct[4] = "g"
  /\ ct[5] = "e" /\ ct[6] = "/"

\* the lowercased extension Python gives each filename of Filenames
\* (Path(name).suffix.lower(), evaluated with CPython's pathlib)
ExpectedExt(fn) ==
  CASE fn = <<"x",".","P","N","G">> -> <<".","p","n","g">>
    [] fn = <<"e",".","p","d","f">> -> <<".","p","d","f">>
    [] fn = <<"s",".","J","p","e","G">> -> <<".","j","p","e","g">>
    [] fn = <<"a",".","p","n","g",".","j","p","g">> -> <<".","j","p","g">>
    [] fn = <<"r",".","d","o","c","x">> -> <<".","d","o","c","x">>
    [] OTHER -> <<>>

AllowedExt ==
  { <<".","p","n","g">>, <<".","j","p","g">>,
    <<".","j","p","e","g">>, <<".","p","d","f">> }

\* the request created a file in the staging directory: open() succeeded
StagedCreated(r) ==
  Has(req[r].trace, "write") \/ Has(req[r].trace, "write raises")

C2_UnavailableFailsFast ==
  xray_service = "None" =>
    /\ xray_temp = EmptyDir
    /\ \A r \in Reqs :
         /\ IsHealth(r) =>
              /\ req[r].response.kind = "return"
              /\ req[r].response.body.xray_ai = "inactive"
         /\ IsXray(r) =>
              /\ Done(r)
              /\ req[r].response =
                   [kind |-> "HTTPException", status_code |-> 503,
                    detail |-> <<"X-ray AI not initialized">>]
              /\ req[r].trace = <<>>
              /\ req[r].file_id = <<>> /\ req[r].path = <<>>

\* C2 witness: with the gateway down, one request asked /health and
\* another posted an upload to /api/xray/analyze
C2_Witness ==
  /\ xray_service = "None"
  /\ \E r1, r2 \in Reqs :
       /\ IsHealth(r1) /\ Done(r1)
       /\ IsXray(r2) /\ Done(r2) /\ Status(r2, 503)

\* C3 as stated: every analyze_xray upload whose declared content type
\* does not start with "image/" is answered 400 and never stages a file.
C3_NonImageIs400 ==
  \A r \in Reqs :
    (IsXray(r) /\ req[r].file.content_type # NoneVal
       /\ ~DeclaresImage(req[r].file.content_type))
      => /\ Done(r) /\ Status(r, 400)
         /\ req[r].trace = <<>> /\ req[r].path = <<>>

\* C3 amended: every analyze_xray upload whose declared content type does
\* not start with "image/" never stages a file, and is answered 400 when
\* the gateway is available and 503 (the earlier check) when it is not.
C3_NonImageIs400WhenAvailable ==
  \A r \in Reqs :
    (IsXray(r) /\ req[r].file.content_type # NoneVal
       /\ ~DeclaresImage(req[r].file.content_type))
      => /\ Done(r)
         /\ req[r].response =
              IF xray_service = "None"
              THEN [kind |-> "HTTPException", status_code |-> 503,
                    detail |-> <<"X-ray AI not initialized">>]
              ELSE [kind |-> "HTTPException", status_code |-> 400,
                    detail |-> <<"Invalid file type">>]
         /\ req[r].trace = <<>> /\ req[r].path = <<>>
         /\ \A n \in DOMAIN xray_temp :
              \E q \in Reqs : q # r /\ IsXray(q) /\ req[q].path = n

\* C3 witness: the gateway is up and an upload declaring "image" (no
\* slash) was answered 400
C3_Witness ==
  \E r \in Reqs :
    /\ xray_service = "XRayService"
    /\ IsXray(r) /\ Done(r)
    /\ req[r].file.content_type = <<"i","m","a","g","e">>
    /\ Status(r, 400)

\* C4: an upload_ecg request whose lowercased filename extension is not
\* .png, .jpg, .jpeg or .pdf is answered 400 "Only PNG, JPG, JPEG, PDF
\* allowed" and nothing is created or written in the archival directory;
\* a filename with an allowed extension in any letter case is accepted.
C4_ExtensionAllowList ==
  /\ \A r \in Reqs :
       (IsEcg(r) /\ req[r].file.filename # NoneVal) =>
         IF ExpectedExt(req[r].file.filename) \in AllowedExt
         THEN /\ ~Status(r, 400)
              /\ req[r].file_ext = ExpectedExt(req[r].file.filename)
              /\ req[r].path # <<>>
         ELSE /\ Done(r)
              /\ req[r].response =
                   [kind |-> "HTTPException", status_code |-> 400,
                    detail |-> <<"Only PNG, JPG, JPEG, PDF allowed">>]
              /\ req[r].trace = <<>> /\ req[r].path = <<>>
  /\ \A n \in DOMAIN ecg_dir :
       \E r \in Reqs :
         /\ IsEcg(r) /\ req[r].path = n
         /\ ExpectedExt(req[r].file.filename) \in AllowedExt

\* C4 witness: report "r.docx" was rejected with the 400
C4_Witness ==
  \E r \in Reqs :
    /\ IsEcg(r) /\ Done(r)
    /\ req[r].file.filename = <<"r",".","d","o","c","x">>
    /\ Status(r, 400)
    /\ ecg_dir = EmptyDir

\* the request passed the availability check and the content-type check
PassedChecks(r) ==
  /\ IsXray(r)
  /\ xray_service # "None"
  /\ DeclaresImage(req[r].file.content_type)

\* the body read, the staging write and the analyze call all completed
ThreeStepsOk(r) ==
  /\ Has(req[r].trace, "read")
  /\ Has(req[r].trace, "write")
  /\ Has(req[r].trace, "analyze returns")

\* C5 as stated (for uploads that declare a filename): a request that
\* passed both checks is answered 200 with {success, result, timestamp}
\* exactly when the body read, the staging write and the analyze call all
\* completed; otherwise it is answered 500 with the underlying message,
\* after the staged file has been removed.
C5_200IffThreeStepsOk ==
  \A r \in Reqs :
    (PassedChecks(r) /\ req[r].file.filename # NoneVal /\ Done(r)) =>
      IF ThreeStepsOk(r)
      THEN /\ req[r].response.kind = "return"
           /\ req[r].response.status_code = 200
           /\ req[r].response.body.success = TRUE
           /\ req[r].response.body.result = req[r].result
      ELSE /\ req[r].response =
                [kind |-> "HTTPException", status_code |-> 500,
                 detail |-> <<"Analysis Error: ", req[r].e>>]
           /\ ~exists(xray_temp, req[r].path)

UploadsEcgPrefix == <<"u","p","l","o","a","d","s","/","e","c","g","/">>

\* C6 as stated: a successful upload_ecg returns the filename
\* ecg_<14 digits in one run>_<uuid><lowercased ext>, the path
\* uploads/ecg/<filename>, and the file of that name is in the archival
\* directory.
C6_FilenameOneRunOf14Digits ==
  \A r \in Reqs :
    (IsEcg(r) /\ Done(r) /\ Status(r, 200)) =>
      LET info == req[r].response.body.file_info
          fn == info.filename
      IN /\ Len(fn) >= 19
         /\ SubSeq(fn, 1, 4) = <<"e","c","g","_">>
         /\ AllDigits(SubSeq(fn, 5, 18))
         /\ fn[19] = "_"
         /\ SubSeq(fn, 20, Len(fn))
              = req[r].file_id \o ExpectedExt(req[r].file.filename)
         /\ info.path = UploadsEcgPrefix \o fn
         /\ exists(ecg_dir, fn)

\* C6 amended: a successful upload_ecg returns the filename
\* ecg_<8 digits>_<6 digits>_<uuid><lowercased ext> (the timestamp is
\* YYYYMMDD_HHMMSS: 14 digits with an underscore after the eighth), the
\* path uploads/ecg/<filename>, and the file of that name is in the
\* archival directory.
C6_FilenameDateUnderscoreTime ==
  \A r \in Reqs :
    (IsEcg(r) /\ Done(r) /\ Status(r, 200)) =>
      LET info == req[r].response.body.file_info
          fn == info.filename
      IN /\ Len(fn) >= 20
         /\ SubSeq(fn, 1, 4) = <<"e","c","g","_">>
         /\ AllDigits(SubSeq(fn, 5, 12))
         /\ fn[13] = "_"
         /\ AllDigits(SubSeq(fn, 14, 19))
         /\ fn[20] = "_"
         /\ Len(req[r].file_id) > 0 /\ AllHex(req[r].file_id)
         /\ SubSeq(fn, 21, Len(fn))
              = req[r].file_id \o ExpectedExt(req[r].file.filename)
         /\ ExpectedExt(req[r].file.filename) \in AllowedExt
         /\ info.path = UploadsEcgPrefix \o fn
         /\ exists(ecg_dir, fn)

\* C6 witness: "s.JpeG" was uploaded and answered 200
C6_Witness ==
  \E r \in Reqs :
    /\ IsEcg(r) /\ Done(r) /\ Status(r, 200)
    /\ req[r].file.filename = <<"s",".","J","p","e","G">>
    /\ exists(ecg_dir, req[r].response.body.file_info.filename)

\* the upload opened its destination file
Opened(r) == IsEcg(r) /\ Has(req[r].trace, "open")

\* C7: in every interleaving, the uploads that reached the archival
\* directory have pairwise distinct stored names, each stored file holds
\* exactly the bytes its own upload wrote (nothing overwrote, modified or
\* deleted it, during the copy or at any time after), and the directory
\* holds no other file.
C7_DistinctFilesNeverTouched ==
  /\ \A r1, r2 \in Reqs :
       (r1 # r2 /\ IsEcg(r1) /\ IsEcg(r2)
          /\ req[r1].path # <<>> /\ req[r2].path # <<>>)
         => req[r1].path # req[r2].path
  /\ \A r \in Reqs :
       Opened(r) =>
         /\ exists(ecg_dir, req[r].path)
         /\ ecg_dir[req[r].path] = BodyOf(Count(req[r].trace, {"write"}))
  /\ \A n \in DOMAIN ecg_dir : \E r \in Reqs : Opened(r) /\ req[r].path = n

\* C7 witness: two uploads of the same original filename named in the same
\* second, one answered 200 while the other, which arrived first, is still
\* copying
C7_Witness ==
  \E r1, r2 \in Reqs :
    /\ r1 # r2 /\ IsEcg(r1) /\ IsEcg(r2)
    /\ req[r1].file.filename = req[r2].file.filename
    /\ req[r1].pc = "copy" /\ Has(req[r1].trace, "write")
    /\ Done(r2) /\ Status(r2, 200) /\ Has(req[r2].trace, "write")
    /\ SubSeq(req[r1].path, 1, 19) = SubSeq(req[r2].path, 1, 19)
    /\ req[r1].path # req[r2].path

\* C8 as stated: no exception other than HTTPException ever leaves
\* analyze_xray or upload_ecg.
C8_OnlyHTTPExceptionLeaves ==
  \A r \in Reqs :
    (Done(r) /\ (IsXray(r) \/ IsEcg(r))) => req[r].response.kind # "raise"

\* C9: when the stream copy fails after the destination was opened,
\* upload_ecg answers 500 "Upload Error: <message>" and does nothing else:
\* the incomplete, possibly empty, destination file is still in the
\* archival directory.
C9_FailedCopyLeavesPartialFile ==
  \A r \in Reqs :
    (IsEcg(r) /\ Has(req[r].trace, "copy raises")) =>
      /\ Done(r)
      /\ req[r].response =
           [kind |-> "HTTPException", status_code |-> 500,
            detail |-> <<"Upload Error: ", "copy failed">>]
      /\ req[r].trace[1] = "open"
      /\ req[r].trace[Len(req[r].trace)] = "copy raises"
      /\ exists(ecg_dir, req[r].path)
      /\ ecg_dir[req[r].path] = BodyOf(Count(req[r].trace, {"write"}))

\* C9 witness: the copy failed before the first byte; the empty file stays
C9_Witness ==
  \E r \in Reqs :
    /\ IsEcg(r) /\ Done(r) /\ Status(r, 500)
    /\ req[r].trace = <<"open", "copy raises">>
    /\ exists(ecg_dir, req[r].path)
    /\ ecg_dir[req[r].path] = <<>>

\* position of a step in the order read, write, call, result, delete
Rank(ev) ==
  CASE ev \in {"read", "read raises"} -> 1
    [] ev \in {"write", "open raises", "write raises"} -> 2
    [] ev = "analyze" -> 3
    [] ev \in {"analyze returns", "analyze raises"} -> 4
    [] ev \in {"unlink", "unlink raises"} -> 5
    [] OTHER -> 0

====
